---- MODULE Spec2Model ----
(***************************************************************************)
(* Drilling-machine JSON pipeline: the five record transforms of           *)
(* Functions_DM.py and the per-file / batch runner of Main_program.py.     *)
(*                                                                         *)
(* Python objects are modelled on an explicit heap (a sequence of dict and *)
(* list objects addressed by index), so that copying, aliasing and         *)
(* in-place assignment are visible.  A JSON value outside the heap is a    *)
(* tree; Load puts a tree on a heap and Deref reads it back.               *)
(***************************************************************************)
EXTENDS Integers, Sequences, FiniteSets, TLC

(***************************************************************************)
(* Values.  Scalars are tagged records; a str carries its characters as a  *)
(* sequence of one-character strings; dict keys are plain strings.  A dict *)
(* keeps its items in insertion order, as a Python dict does.              *)
(***************************************************************************)
Null == [t |-> "null"]

Num(n) == [t |-> "num", n |-> n]

Bool(b) == [t |-> "bool", b |-> b]

Str(s) == [t |-> "str", s |-> s]

(* an int beyond the range of float, such as 10**400 *)
BigInt == [t |-> "bigint"]

PyObj == [t |-> "pyobj"]

(* in place of a returned cell: the call raised e *)
Raised(e) == [t |-> "raise", e |-> e]

Dict(items) == [t |-> "dict", items |-> items]

List(elems) == [t |-> "list", elems |-> elems]

Ref(a) == [t |-> "ref", a |-> a]

Item(k, v) == [k |-> k, v |-> v]

EmptyHeap == <<>>

Alloc(h, obj) == [h |-> Append(h, obj), r |-> Ref(Len(h) + 1)]

IsMapping(h, c) == c.t = "ref" /\ h[c.a].t = "dict"

IsList(h, c) == c.t = "ref" /\ h[c.a].t = "list"

(***************************************************************************)
(* dict operations on an item sequence: `in`, .get (None when absent),     *)
(* d[k] = v (an existing key keeps its position) and .pop(k, None).        *)
(***************************************************************************)
DictHas(items, key) == \E i \in 1..Len(items) : items[i].k = key

DictGet(items, key) ==
    IF DictHas(items, key)
    THEN items[CHOOSE i \in 1..Len(items) : items[i].k = key].v
    ELSE Null

DictSet(items, key, val) ==
    IF DictHas(items, key)
    THEN [i \in 1..Len(items) |->
            IF items[i].k = key THEN Item(key, val) ELSE items[i]]
    ELSE Append(items, Item(key, val))

DictPop(items, key) == SelectSeq(items, LAMBDA it : it.k # key)

HeapSetItem(h, a, key, val) ==
    [h EXCEPT ![a] = Dict(DictSet(h[a].items, key, val))]

HeapPopItem(h, a, key) ==
    [h EXCEPT ![a] = Dict(DictPop(h[a].items, key))]

(***************************************************************************)
(* Load: put a tree on the heap (what json.load builds); Deref: the tree   *)
(* a heap cell denotes.                                                    *)
(***************************************************************************)
RECURSIVE Load(_, _), LoadEach(_, _)

LoadEach(h, trees) ==
    IF trees = <<>>
    THEN [h |-> h, out |-> <<>>]
    ELSE LET first == Load(h, Head(trees))
             rest == LoadEach(first.h, Tail(trees))
         IN [h |-> rest.h, out |-> <<first.r>> \o rest.out]

Load(h, tree) ==
    IF tree.t = "dict"
    THEN LET sub == LoadEach(h, [i \in 1..Len(tree.items) |-> tree.items[i].v])
         IN Alloc(sub.h, Dict([i \in 1..Len(tree.items) |->
                                 Item(tree.items[i].k, sub.out[i])]))
    ELSE IF tree.t = "list"
    THEN LET sub == LoadEach(h, tree.elems)
         IN Alloc(sub.h, List(sub.out))
    ELSE [h |-> h, r |-> tree]

RECURSIVE Deref(_, _)

Deref(h, c) ==
    IF IsMapping(h, c)
    THEN Dict([i \in 1..Len(h[c.a].items) |->
                 Item(h[c.a].items[i].k, Deref(h, h[c.a].items[i].v))])
    ELSE IF IsList(h, c)
    THEN List([i \in 1..Len(h[c.a].elems) |-> Deref(h, h[c.a].elems[i])])
    ELSE c

(***************************************************************************)
(* RELEVANT_KEYS and METERS_PER_MILE.                                      *)
(***************************************************************************)
RELEVANT_KEYS ==
    {"machine_id", "name", "location", "status", "specifications",
     "last_maintenance_date", "next_maintenance_due", "contact_information"}

METERS_PER_MILE == 1609

(***************************************************************************)
(* str.lower on the keys the model uses.                                   *)
(***************************************************************************)
Lower(k) ==
    CASE k = "Name" -> "name"
      [] k = "Machine_ID" -> "machine_id"
      [] k = "NAME" -> "name"
      [] k = "Specifications" -> "specifications"
      [] k = "Depth_Capacity_Miles" -> "depth_capacity_miles"
      [] k = "Last_Maintenance_Date" -> "last_maintenance_date"
      [] k = "Contact_Information" -> "contact_information"
      [] k = "Phone" -> "phone"
      [] k = "Serial" -> "serial"
      [] OTHER -> k

(***************************************************************************)
(* Characters and decimal numerals.                                        *)
(***************************************************************************)
Digits == <<"0", "1", "2", "3", "4", "5", "6", "7", "8", "9">>

IsDigit(c) == \E i \in 1..10 : Digits[i] = c

DigitVal(c) == (CHOOSE i \in 1..10 : Digits[i] = c) - 1

RECURSIVE ToInt(_)

ToInt(cs) ==
    IF cs = <<>> THEN 0
    ELSE 10 * ToInt(SubSeq(cs, 1, Len(cs) - 1)) + DigitVal(cs[Len(cs)])

AllDigits(cs) == \A i \in 1..Len(cs) : IsDigit(cs[i])

Pad2(n) == <<Digits[((n \div 10) % 10) + 1], Digits[(n % 10) + 1]>>

(* %Y of strftime for a year of four digits (the dates of the model; how  *)
(* a year below 1000 is written depends on the C library)                  *)
Pad4(n) == Pad2(n \div 100) \o Pad2(n % 100)

RECURSIVE Strip(_)

Strip(cs) ==
    IF cs = <<>> THEN cs
    ELSE IF Head(cs) = " " THEN Strip(Tail(cs))
    ELSE IF cs[Len(cs)] = " " THEN Strip(SubSeq(cs, 1, Len(cs) - 1))
    ELSE cs

(***************************************************************************)
(* float(s) for a stripped string, on decimal integer numerals with an     *)
(* optional sign; every other string of the model is a ValueError.         *)
(***************************************************************************)
ParseFloat(cs) ==
    LET signed == cs # <<>> /\ Head(cs) \in {"+", "-"}
        body == IF signed THEN Tail(cs) ELSE cs
    IN IF body # <<>> /\ AllDigits(body)
       THEN [ok |-> TRUE,
             n |-> IF signed /\ Head(cs) = "-" THEN 0 - ToInt(body) ELSE ToInt(body)]
       ELSE [ok |-> FALSE, n |-> 0]

(* _to_float: None -> None; float/int (bool included) -> float(value),    *)
(* outside the try block, which raises OverflowError for an int too large  *)
(* for a float; otherwise float(str(value).strip()), None on               *)
(* ValueError/TypeError.  [ok, n, raised]: ok with the float n, None, or   *)
(* the exception that leaves the function.                                 *)
_to_float(value) ==
    CASE value.t = "null" -> [ok |-> FALSE, n |-> 0, raised |-> "none"]
      [] value.t = "num" -> [ok |-> TRUE, n |-> value.n, raised |-> "none"]
      [] value.t = "bigint" -> [ok |-> FALSE, n |-> 0, raised |-> "OverflowError"]
      [] value.t = "bool" ->
            [ok |-> TRUE, n |-> IF value.b THEN 1 ELSE 0, raised |-> "none"]
      [] value.t = "str" ->
            LET f == ParseFloat(Strip(value.s))
            IN [ok |-> f.ok, n |-> f.n, raised |-> "none"]
      [] OTHER -> [ok |-> FALSE, n |-> 0, raised |-> "none"]

(***************************************************************************)
(* datetime.strptime(value, "%Y-%m-%d"): the directive patterns are        *)
(*   %Y  \d\d\d\d                                                          *)
(*   %m  1[0-2]|0[1-9]|[1-9]                                               *)
(*   %d  3[01]|[12]\d|0[1-9]|[1-9]| [1-9]                                  *)
(* matched from the start, then the whole string must be consumed and the  *)
(* date must exist.                                                        *)
(***************************************************************************)
IsLeap(y) == (y % 4 = 0 /\ y % 100 # 0) \/ y % 400 = 0

DaysInMonth(y, m) ==
    IF m = 2 THEN (IF IsLeap(y) THEN 29 ELSE 28)
    ELSE IF m \in {4, 6, 9, 11} THEN 30 ELSE 31

MonthLen(cs, p) ==
    IF Len(cs) >= p + 1 /\ cs[p] = "1" /\ cs[p + 1] \in {"0", "1", "2"} THEN 2
    ELSE IF Len(cs) >= p + 1 /\ cs[p] = "0" /\ IsDigit(cs[p + 1]) /\ cs[p + 1] # "0" THEN 2
    ELSE IF Len(cs) >= p /\ IsDigit(cs[p]) /\ cs[p] # "0" THEN 1
    ELSE 0

DayLen(cs, p) ==
    IF Len(cs) >= p + 1 /\ cs[p] = "3" /\ cs[p + 1] \in {"0", "1"} THEN 2
    ELSE IF Len(cs) >= p + 1 /\ cs[p] \in {"1", "2"} /\ IsDigit(cs[p + 1]) THEN 2
    ELSE IF Len(cs) >= p + 1 /\ cs[p] = "0" /\ IsDigit(cs[p + 1]) /\ cs[p + 1] # "0" THEN 2
    ELSE IF Len(cs) >= p /\ IsDigit(cs[p]) /\ cs[p] # "0" THEN 1
    ELSE IF Len(cs) >= p + 1 /\ cs[p] = " " /\ IsDigit(cs[p + 1]) /\ cs[p + 1] # "0" THEN 2
    ELSE 0

StrptimeYmd(cs) ==
    LET bad == [ok |-> FALSE, y |-> 0, m |-> 0, d |-> 0]
    IN IF ~(Len(cs) >= 5 /\ AllDigits(SubSeq(cs, 1, 4)) /\ cs[5] = "-") THEN bad
       ELSE LET ml == MonthLen(cs, 6)
            IN IF ml = 0 \/ Len(cs) < 6 + ml \/ cs[6 + ml] # "-" THEN bad
               ELSE LET dl == DayLen(cs, 7 + ml)
                        y == ToInt(SubSeq(cs, 1, 4))
                        m == ToInt(SubSeq(cs, 6, 5 + ml))
                        d == ToInt(Strip(SubSeq(cs, 7 + ml, 6 + ml + dl)))
                    IN IF dl = 0 \/ Len(cs) # 6 + ml + dl THEN bad
                       ELSE IF y < 1 \/ d > DaysInMonth(y, m) THEN bad
                       ELSE [ok |-> TRUE, y |-> y, m |-> m, d |-> d]

(* _format_iso_date_to_ddmmyyyy on a str: the converted characters, or    *)
(* the empty sequence for None (both falsy at the caller's `if converted`).*)
_format_iso_date_to_ddmmyyyy(cs) ==
    IF ~(\E i \in 1..Len(cs) : cs[i] = "-") THEN <<>>
    ELSE LET dt == StrptimeYmd(cs)
         IN IF dt.ok
            THEN Pad2(dt.d) \o <<"/">> \o Pad2(dt.m) \o <<"/">> \o Pad4(dt.y)
            ELSE <<>>

(***************************************************************************)
(* The transforms.  Each takes the heap and the argument cell and returns  *)
(* [h |-> the heap afterwards, r |-> the returned cell, or Raised(e) when  *)
(* the call raised].                                                       *)
(***************************************************************************)
RECURSIVE _deep_normalize_keys(_, _), NormalizeEach(_, _)

NormalizeEach(h, cells) ==
    IF cells = <<>>
    THEN [h |-> h, out |-> <<>>]
    ELSE LET first == _deep_normalize_keys(h, Head(cells))
             rest == NormalizeEach(first.h, Tail(cells))
         IN [h |-> rest.h, out |-> <<first.r>> \o rest.out]

RECURSIVE LowerItems(_, _, _)

(* result[new_key] = value, for the first i items in order *)
LowerItems(items, vals, i) ==
    IF i = 0 THEN <<>>
    ELSE DictSet(LowerItems(items, vals, i - 1), Lower(items[i].k), vals[i])

(* lists are returned as they are, not walked *)
_deep_normalize_keys_dicts_only(h, c) ==
    IF IsMapping(h, c)
    THEN LET items == h[c.a].items
             sub == NormalizeEach(h, [i \in 1..Len(items) |-> items[i].v])
         IN Alloc(sub.h, Dict(LowerItems(items, sub.out, Len(items))))
    ELSE [h |-> h, r |-> c]

_deep_normalize_keys(h, c) ==
    IF IsMapping(h, c)
    THEN LET items == h[c.a].items
             sub == NormalizeEach(h, [i \in 1..Len(items) |-> items[i].v])
         IN Alloc(sub.h, Dict(LowerItems(items, sub.out, Len(items))))
    ELSE IF IsList(h, c)
    THEN LET sub == NormalizeEach(h, h[c.a].elems)
         IN Alloc(sub.h, List(sub.out))
    ELSE [h |-> h, r |-> c]

(* result = x: no copy is made *)
CopyDictAlias(h, c) == [h |-> h, r |-> c]

(* dict(x): a new dict object with the same items *)
CopyDict(h, c) == Alloc(h, Dict(h[c.a].items))

(* an argument that is not a mapping is returned as it is *)
normalisation_passes_non_mapping(h, x) ==
    IF ~IsMapping(h, x) THEN [h |-> h, r |-> x]
    ELSE LET deep == _deep_normalize_keys(h, x)
         IN CopyDict(deep.h, deep.r)

normalisation_casse_clefs(h, x) ==
    IF ~IsMapping(h, x) THEN Alloc(h, Dict(<<>>))
    ELSE LET deep == _deep_normalize_keys(h, x)
         IN CopyDict(deep.h, deep.r)

(* every key is kept *)
remove_nothing(h, x) ==
    IF ~IsMapping(h, x) THEN Alloc(h, Dict(<<>>)) ELSE CopyDict(h, x)

remove_irrelevant_data_points(h, x) ==
    IF ~IsMapping(h, x) THEN Alloc(h, Dict(<<>>))
    ELSE Alloc(h, Dict(SelectSeq(h[x.a].items, LAMBDA it : it.k \in RELEVANT_KEYS)))

(* one round of format_dates' loop: the heap after handling date_key in   *)
(* the dict at address a                                                   *)
FormatOneDate(h, a, date_key) ==
    LET val == DictGet(h[a].items, date_key)
    IN IF val.t = "str"
       THEN LET converted == _format_iso_date_to_ddmmyyyy(val.s)
            IN IF converted # <<>>
               THEN HeapSetItem(h, a, date_key, Str(converted))
               ELSE h
       ELSE h

format_dates(h, x) ==
    IF ~IsMapping(h, x) THEN Alloc(h, Dict(<<>>))
    ELSE LET result == CopyDict(h, x)
             h1 == FormatOneDate(result.h, result.r.a, "last_maintenance_date")
             h2 == FormatOneDate(h1, result.r.a, "next_maintenance_due")
         IN [h |-> h2, r |-> result.r]

(* the converted value is stored back under the mile key *)
ConvertOneMileInPlace(h, a, mile_key, meter_key) ==
    LET val == _to_float(DictGet(h[a].items, mile_key))
    IN IF val.ok
       THEN [h |-> HeapSetItem(h, a, mile_key, Num(val.n * METERS_PER_MILE)),
             changed |-> TRUE, raised |-> val.raised]
       ELSE [h |-> h, changed |-> FALSE, raised |-> val.raised]

(* one of the two conversion blocks of convert_miles_to_meters, on the    *)
(* specs dict at address a: [h, changed, raised]                           *)
ConvertOneMile(h, a, mile_key, meter_key) ==
    LET val == _to_float(DictGet(h[a].items, mile_key))
    IN IF val.ok
       THEN [h |-> HeapSetItem(HeapPopItem(h, a, mile_key), a, meter_key,
                               Num(val.n * METERS_PER_MILE)),
             changed |-> TRUE, raised |-> val.raised]
       ELSE [h |-> h, changed |-> FALSE, raised |-> val.raised]

(* lines 215-216: specs, a copy of result["specifications"] when that is  *)
(* a mapping, a new empty dict otherwise                                   *)
SpecsCopy(h, old) ==
    IF IsMapping(h, old) THEN CopyDict(h, old) ELSE Alloc(h, Dict(<<>>))

(* lines 236-243, with the outcomes of the two conversion blocks: an      *)
(* exception raised in the first or the second block leaves the function;  *)
(* otherwise specs is stored when something changed or the key is present  *)
ConvertReturn(result, specs, depth, speed) ==
    IF depth.raised # "none" THEN [h |-> depth.h, r |-> Raised(depth.raised)]
    ELSE IF speed.raised # "none" THEN [h |-> speed.h, r |-> Raised(speed.raised)]
    ELSE IF depth.changed \/ speed.changed
            \/ DictHas(speed.h[result.a].items, "specifications")
    THEN [h |-> HeapSetItem(speed.h, result.a, "specifications", specs), r |-> result]
    ELSE [h |-> speed.h, r |-> result]

(* the second conversion block runs on the heap the first one left *)
ConvertSpeed(result, specs, depth) ==
    ConvertReturn(result, specs, depth,
                  ConvertOneMile(depth.h, specs.a, "drilling_speed_miles_per_day",
                                 "drilling_speed_meters_per_day"))

ConvertBlocks(result, specs) ==
    ConvertSpeed(result, specs.r,
                 ConvertOneMile(specs.h, specs.r.a, "depth_capacity_miles",
                                "depth_capacity_meters"))

ConvertCopy(result) ==
    ConvertBlocks(result.r,
                  SpecsCopy(result.h, DictGet(result.h[result.r.a].items, "specifications")))

convert_miles_to_meters(h, x) ==
    IF ~IsMapping(h, x) THEN Alloc(h, Dict(<<>>)) ELSE ConvertCopy(CopyDict(h, x))

ContactTemplate ==
    Dict(<<Item("operator_company", Null), Item("contact_person", Null),
           Item("phone", Null), Item("email", Null)>>)

(* an existing mapping is completed with the fields it lacks *)
missing_contact_backfill(h, x) ==
    IF ~IsMapping(h, x) THEN Alloc(h, Dict(<<>>))
    ELSE LET result == CopyDict(h, x)
             ra == result.r.a
             contact == DictGet(result.h[ra].items, "contact_information")
         IN IF ~IsMapping(result.h, contact)
            THEN LET tpl == Alloc(result.h, ContactTemplate)
                 IN [h |-> HeapSetItem(tpl.h, ra, "contact_information", tpl.r),
                     r |-> result.r]
            ELSE LET old == result.h[contact.a].items
                     lacking == SelectSeq(ContactTemplate.items,
                                          LAMBDA it : ~DictHas(old, it.k))
                     filled == Alloc(result.h, Dict(old \o lacking))
                 IN [h |-> HeapSetItem(filled.h, ra, "contact_information", filled.r),
                     r |-> result.r]

(* the template is added only when the key is absent *)
missing_contact_when_absent(h, x) ==
    IF ~IsMapping(h, x) THEN Alloc(h, Dict(<<>>))
    ELSE LET result == CopyDict(h, x)
             ra == result.r.a
         IN IF ~DictHas(result.h[ra].items, "contact_information")
            THEN LET tpl == Alloc(result.h, ContactTemplate)
                 IN [h |-> HeapSetItem(tpl.h, ra, "contact_information", tpl.r),
                     r |-> result.r]
            ELSE [h |-> result.h, r |-> result.r]

missing_contact_information(h, x) ==
    IF ~IsMapping(h, x) THEN Alloc(h, Dict(<<>>))
    ELSE LET result == CopyDict(h, x)
             ra == result.r.a
             contact == DictGet(result.h[ra].items, "contact_information")
         IN IF ~IsMapping(result.h, contact)
            THEN LET tpl == Alloc(result.h, ContactTemplate)
                 IN [h |-> HeapSetItem(tpl.h, ra, "contact_information", tpl.r),
                     r |-> result.r]
            ELSE [h |-> result.h, r |-> result.r]

(***************************************************************************)
(* A transform as a function on trees: load the argument on a fresh heap,  *)
(* call, read the result back.                                             *)
(***************************************************************************)
CallTransform(name, h, x) ==
    CASE name = "normalisation_casse_clefs" -> normalisation_casse_clefs(h, x)
      [] name = "remove_irrelevant_data_points" -> remove_irrelevant_data_points(h, x)
      [] name = "format_dates" -> format_dates(h, x)
      [] name = "convert_miles_to_meters" -> convert_miles_to_meters(h, x)
      [] name = "missing_contact_information" -> missing_contact_information(h, x)

OnTree(name, tree) ==
    LET ld == Load(EmptyHeap, tree)
        res == CallTransform(name, ld.h, ld.r)
    IN Deref(res.h, res.r)

(* the pipeline list built under __main__ *)
StandardPipeline ==
    <<"normalisation_casse_clefs", "remove_irrelevant_data_points", "format_dates",
      "convert_miles_to_meters", "missing_contact_information">>

(***************************************************************************)
(* Steps a caller of main may pass besides the five transforms: one that   *)
(* raises, one that returns a list, one that returns a dict holding an     *)
(* object json cannot serialize.  StepCall is `data = step(data)`:         *)
(* [raised, e, val].                                                       *)
(***************************************************************************)
StepOutcome(out) ==
    IF out.t = "raise"
    THEN [raised |-> TRUE, e |-> out.e, val |-> Null]
    ELSE [raised |-> FALSE, e |-> "none", val |-> out]

StepCall(step, tree) ==
    CASE step = "raising_step" -> [raised |-> TRUE, e |-> "ValueError", val |-> Null]
      [] step = "list_step" -> [raised |-> FALSE, e |-> "none", val |-> List(<<tree>>)]
      [] step = "handle_step" ->
            [raised |-> FALSE, e |-> "none", val |-> Dict(<<Item("handle", PyObj)>>)]
      [] OTHER -> StepOutcome(OnTree(step, tree))

Pipelines ==
    { StandardPipeline,
      <<>>,
      <<"normalisation_casse_clefs", "raising_step", "missing_contact_information">>,
      <<"normalisation_casse_clefs", "list_step", "missing_contact_information">>,
      <<"handle_step">> }

RECURSIVE RunSteps(_, _)

(* the value the step loop ends with when no step fails *)
RunSteps(steps, tree) ==
    IF steps = <<>> THEN tree
    ELSE RunSteps(Tail(steps), StepCall(Head(steps), tree).val)

(***************************************************************************)
(* json.dump(data, f, ensure_ascii=False, indent=2): the chunks written,   *)
(* in order.  A chunk that cannot be produced or encoded (an object that   *)
(* is not JSON, a str with a lone surrogate written as UTF-8) raises when  *)
(* it is reached.                                                          *)
(***************************************************************************)
Tok(p) == [t |-> "punct", p |-> p]

KeyTok(k) == [t |-> "key", k |-> k]

RECURSIVE Tokens(_), TokensEach(_, _)

TokensEach(vals, keys) ==
    IF vals = <<>> THEN <<>>
    ELSE (IF keys = <<>> THEN <<>> ELSE <<KeyTok(Head(keys))>>)
         \o Tokens(Head(vals))
         \o TokensEach(Tail(vals), IF keys = <<>> THEN <<>> ELSE Tail(keys))

Tokens(tree) ==
    IF tree.t = "dict"
    THEN <<Tok("{")>>
         \o TokensEach([i \in 1..Len(tree.items) |-> tree.items[i].v],
                       [i \in 1..Len(tree.items) |-> tree.items[i].k])
         \o <<Tok("}")>>
    ELSE IF tree.t = "list"
    THEN <<Tok("[")>> \o TokensEach(tree.elems, <<>>) \o <<Tok("]")>>
    ELSE <<tree>>

Surrogate == "\\ud800"

DumpError(tok) ==
    IF tok.t = "pyobj" THEN "TypeError"
    ELSE IF tok.t = "str" /\ (\E i \in 1..Len(tok.s) : tok.s[i] = Surrogate)
    THEN "UnicodeEncodeError"
    ELSE "none"

(* position of the first chunk json.dump fails on, 0 when there is none *)
FirstBad(toks) ==
    IF \E i \in 1..Len(toks) : DumpError(toks[i]) # "none"
    THEN CHOOSE i \in 1..Len(toks) :
            /\ DumpError(toks[i]) # "none"
            /\ \A j \in 1..(i - 1) : DumpError(toks[j]) = "none"
    ELSE 0

(***************************************************************************)
(* Exceptions: a raised exception is [type, step, file, cause]; Mro is the *)
(* class and its bases, which is what an except clause tests.              *)
(***************************************************************************)
Mro(type) ==
    CASE type = "FileNotFoundError" -> {type, "OSError", "Exception"}
      [] type = "PermissionError" -> {type, "OSError", "Exception"}
      [] type = "NotADirectoryError" -> {type, "OSError", "Exception"}
      [] type = "OSError" -> {type, "Exception"}
      [] type = "JSONDecodeError" -> {type, "ValueError", "Exception"}
      [] type = "UnicodeDecodeError" -> {type, "UnicodeError", "ValueError", "Exception"}
      [] type = "UnicodeEncodeError" -> {type, "UnicodeError", "ValueError", "Exception"}
      [] type = "ValueError" -> {type, "Exception"}
      [] type = "TypeError" -> {type, "Exception"}
      [] type = "OverflowError" -> {type, "ArithmeticError", "Exception"}
      [] type = "FileProcessingError" -> {type, "RuntimeError", "Exception"}
      [] type = "PipelineStepError" -> {type, "RuntimeError", "Exception"}
      [] OTHER -> {}

IsInstance(type, cls) == cls \in Mro(type)

NoExc == [type |-> "none", step |-> "", file |-> 0, cause |-> "none"]

Raw(type) == [type |-> type, step |-> "", file |-> 0, cause |-> "none"]

FileProcessingError(file, cause) ==
    [type |-> "FileProcessingError", step |-> "", file |-> file, cause |-> cause]

PipelineStepError(step, file, cause) ==
    [type |-> "PipelineStepError", step |-> step, file |-> file, cause |-> cause]

(***************************************************************************)
(* Bounds of the runner model.                                             *)
(***************************************************************************)
MaxFiles == 2

MaxBatches == 2

(* how many times the operating system fails a call in one run *)
MaxFaults == 2

(***************************************************************************)
(* Input files.  The bytes of a discovered file are not UTF-8, are not     *)
(* JSON, or parse to a JSON value; opening or reading any file may also    *)
(* fail in the operating system (the file is gone by then, may not be      *)
(* read, or another OS error).                                             *)
(***************************************************************************)
DateIso == <<"2", "0", "2", "4", "-", "0", "3", "-", "0", "5">>

RecTypical ==
    Dict(<<Item("Machine_ID", Str(<<"D", "M", "7">>)),
           Item("Name", Str(<<"r", "i", "g">>)),
           Item("Serial", Num(41)),
           Item("Last_Maintenance_Date", Str(DateIso)),
           Item("Specifications",
                Dict(<<Item("Depth_Capacity_Miles", Str(<<" ", "2", " ">>)),
                       Item("drilling_speed_miles_per_day", Str(<<"a", "b", "c">>))>>))>>)

RecSurrogate ==
    Dict(<<Item("name", Str(<<"r", Surrogate>>)), Item("status", Str(<<"o", "k">>))>>)

ListValue == List(<<Num(1), Dict(<<Item("Name", Null)>>)>>)

InputFile(kind, value) == [kind |-> kind, value |-> value]

InputFiles ==
    { InputFile("badjson", Null), InputFile("undecodable", Null),
      InputFile("json", RecTypical), InputFile("json", RecSurrogate),
      InputFile("json", ListValue) }

ReadFaults == {"FileNotFoundError", "PermissionError", "OSError"}

(* what in_path.open + json.load raise on the file, "none" when they      *)
(* parse; fault is the operating system's failure, "none" when it has none *)
ReadError(file, fault) ==
    CASE fault # "none" -> fault
      [] file.kind = "badjson" -> "JSONDecodeError"
      [] file.kind = "undecodable" -> "UnicodeDecodeError"
      [] OTHER -> "none"

(* the except clauses of the read block, tried in order *)
ReadRaise(err, i) ==
    IF IsInstance(err, "FileNotFoundError") THEN FileProcessingError(i, err)
    ELSE IF IsInstance(err, "PermissionError") THEN FileProcessingError(i, err)
    ELSE IF IsInstance(err, "JSONDecodeError") THEN FileProcessingError(i, err)
    ELSE IF IsInstance(err, "OSError") THEN FileProcessingError(i, err)
    ELSE Raw(err)

(* the write block without its `except OSError` clause *)
WriteRaisePermissionOnly(e, i) ==
    IF IsInstance(e.type, "PermissionError") THEN FileProcessingError(i, e.type)
    ELSE e

(* the except clauses of the write block, tried in order *)
WriteRaise(e, i) ==
    IF IsInstance(e.type, "PermissionError") THEN FileProcessingError(i, e.type)
    ELSE IF IsInstance(e.type, "OSError") THEN FileProcessingError(i, e.type)
    ELSE e

OsErrors == {"PermissionError", "OSError"}

(***************************************************************************)
(* The file system: a path holds no file or a file with the chunks written *)
(* to it so far.                                                           *)
(***************************************************************************)
Absent == [exists |-> FALSE, text |-> <<>>]

File(text) == [exists |-> TRUE, text |-> text]

NoPath == [dir |-> "none", f |-> 0, b |-> 0]

(* out_path = out_dir / in_path.name *)
out_path(i) == [dir |-> "out", f |-> i, b |-> 0]

(* the record is written straight to the final path *)
mkstemp_in_place(i, b) == out_path(i)

(* tempfile.mkstemp(prefix=".<name>.tmp.", dir=out_dir): a fresh name *)
mkstemp(i, b) == [dir |-> "tmp", f |-> i, b |-> b]

Paths ==
    {out_path(i) : i \in 1..MaxFiles}
    \cup {mkstemp(i, b) : i \in 1..MaxFiles, b \in 1..MaxBatches}

(* an output left by an earlier run *)
OldRecord == Dict(<<Item("machine_id", Str(<<"o", "l", "d">>))>>)

(* how much of the text has reached the file while the rest is buffered *)
PrefixLens(toks) == {0, Len(toks) \div 2}

Prefix(toks, k) == SubSeq(toks, 1, k)

ZeroMetrics ==
    [files_total |-> 0, files_processed |-> 0, files_failed |-> 0,
     pipeline_step_failures |-> 0]

(***************************************************************************)
(* State of the runner.                                                    *)
(*   files, pipeline   the arguments of main: the sorted glob result (a    *)
(*                     file's name is its position) and the step list      *)
(*   fs                the destination directory                           *)
(*   metrics           the module-level Counter                            *)
(*   success, failures, idx     main's locals and loop position            *)
(*   data, stepIdx, tmp_file, exc   process_file's locals, the step loop's *)
(*                     position and the exception in flight                *)
(*   pc                where control is                                    *)
(*   faults            operating-system failures so far                    *)
(* History, written but never read by the program:                         *)
(*   prior     fs as it was before the first batch                         *)
(*   batch     number of calls of main so far                              *)
(*   base      metrics when the current call of main began                 *)
(*   called    files process_file was called on in the current batch       *)
(*   outcome   how process_file ended for each file of the current batch   *)
(*   stepLog   the step calls made for the current file, each with its     *)
(*             argument and what it raised or returned                     *)
(*   wrote     whether the write block was entered for the current file    *)
(*   origExc, cleanup   the exception that entered the write block's       *)
(*             handler and what the handler's cleanup did                  *)
(*   before    fs as it was when process_file was last called              *)
(*   log       the records of level WARNING and above handed to the logger *)
(*             during the current call of main                             *)
(***************************************************************************)
VARIABLES files, pipeline, fs, metrics, success, failures, idx, data, stepIdx,
          tmp_file, exc, pc, faults, prior, batch, base, called, outcome,
          stepLog, wrote, origExc, cleanup, before, log

(***************************************************************************)
(* State of the transform harness: one heap, the argument and result of    *)
(* the last call.                                                          *)
(*   tin     the input tree                                                *)
(*   theap   the heap            tprev  the heap before the last call      *)
(*   targ    the last argument   tret   the last result                    *)
(*   tfn     the transform last called ("none" before any call)            *)
(*   tmode   "ready", "single" (one transform was called on the input) or  *)
(*           "pipeline" (the standard pipeline is being applied)           *)
(*   tpos    number of pipeline steps applied so far, over all rounds      *)
(*   tonce   the tree the first pipeline round returned                    *)
(***************************************************************************)
VARIABLES tin, theap, tprev, targ, tret, tfn, tmode, tpos, tonce

rvars == <<files, pipeline, fs, metrics, success, failures, idx, data, stepIdx,
           tmp_file, exc, pc, faults, prior, batch, base, called, outcome,
           stepLog, wrote, origExc, cleanup, before, log>>

tvars == <<tin, theap, tprev, targ, tret, tfn, tmode, tpos, tonce>>

vars == <<rvars, tvars>>

FileLists == UNION {[1..n -> InputFiles] : n \in 0..MaxFiles}

(* the module is imported, main has not been called *)
RunnerIdle ==
    /\ metrics = ZeroMetrics
    /\ success = 0
    /\ failures = 0
    /\ idx = 0
    /\ data = Null
    /\ stepIdx = 0
    /\ tmp_file = NoPath
    /\ exc = NoExc
    /\ pc = "idle"
    /\ faults = 0
    /\ batch = 0
    /\ base = ZeroMetrics
    /\ called = [i \in 1..Len(files) |-> FALSE]
    /\ outcome = [i \in 1..Len(files) |-> "pending"]
    /\ stepLog = <<>>
    /\ wrote = FALSE
    /\ origExc = NoExc
    /\ cleanup = "none"
    /\ before = fs
    /\ log = <<>>

TransformIdle ==
    /\ tin = Null
    /\ theap = EmptyHeap
    /\ tprev = EmptyHeap
    /\ targ = Null
    /\ tret = Null
    /\ tfn = "none"
    /\ tmode = "off"
    /\ tpos = 0
    /\ tonce = Null

Init ==
    /\ files \in FileLists
    /\ pipeline \in Pipelines
    /\ \E old \in BOOLEAN :
          fs = [p \in Paths |->
                  IF old /\ p.dir = "out" /\ p.f <= Len(files)
                  THEN File(Tokens(OldRecord)) ELSE Absent]
    /\ prior = fs
    /\ RunnerIdle
    /\ TransformIdle

(* a record handed to the logger by main: its level, the file it is      *)
(* about (0 when about none) and the exception logged with it              *)
LogRecord(level, file, e) == [level |-> level, by |-> "main", file |-> file, exc |-> e]

(* the handler logs nothing *)
LogNothing(l, file, e) == l

(* logger.exception(...) in a handler of main, lines 179, 184 and 188 *)
LogException(l, file, e) == Append(l, LogRecord("ERROR", file, e.type))

CanFail == faults < MaxFaults

(* an operating-system call fails with e *)
OsFails(e) ==
    /\ CanFail
    /\ e \in OsErrors
    /\ faults' = faults + 1
    /\ exc' = Raw(e)
    /\ pc' = "except_write"

Callable == pc \in {"idle", "done", "aborted"} /\ batch < MaxBatches

(* main, lines 152-167, when fld_raw is a directory *)
MainStart ==
    /\ Callable
    /\ batch' = batch + 1
    /\ base' = metrics
    /\ called' = [i \in 1..Len(files) |-> FALSE]
    /\ outcome' = [i \in 1..Len(files) |-> "pending"]
    /\ exc' = NoExc
    /\ success' = 0
    /\ failures' = 0
    /\ IF files = <<>>
       THEN /\ pc' = "done"
            /\ UNCHANGED <<metrics, idx>>
       ELSE /\ metrics' = [metrics EXCEPT !.files_total = @ + Len(files)]
            /\ idx' = 1
            /\ pc' = "loop"
    /\ before' = fs
    /\ log' = IF files = <<>> THEN <<LogRecord("WARNING", 0, "none")>> ELSE <<>>
    /\ UNCHANGED <<faults, files, pipeline, fs, data, stepIdx, tmp_file, prior, stepLog,
                   wrote, origExc, cleanup, tvars>>

(* main, lines 154-156: fld_raw is not a directory *)
MainNotADirectory ==
    /\ Callable
    /\ batch' = batch + 1
    /\ base' = metrics
    /\ called' = [i \in 1..Len(files) |-> FALSE]
    /\ outcome' = [i \in 1..Len(files) |-> "pending"]
    /\ exc' = Raw("NotADirectoryError")
    /\ pc' = "aborted"
    /\ before' = fs
    /\ log' = <<LogRecord("ERROR", 0, "none")>>
    /\ UNCHANGED <<faults, files, pipeline, fs, metrics, success, failures, idx, data,
                   stepIdx, tmp_file, prior, stepLog, wrote, origExc, cleanup, tvars>>

(* process_file, lines 68-82: called on files[idx], reads and parses it *)
ProcessFileRead ==
    /\ pc = "loop"
    /\ idx <= Len(files)
    /\ called' = [called EXCEPT ![idx] = TRUE]
    /\ stepLog' = <<>>
    /\ wrote' = FALSE
    /\ tmp_file' = NoPath
    /\ origExc' = NoExc
    /\ cleanup' = "none"
    /\ \E fault \in {"none"} \cup (IF CanFail THEN ReadFaults ELSE {}) :
          LET err == ReadError(files[idx], fault)
          IN /\ faults' = IF fault = "none" THEN faults ELSE faults + 1
             /\ IF err = "none"
                THEN /\ data' = files[idx].value
                     /\ stepIdx' = 1
                     /\ pc' = "steps"
                     /\ UNCHANGED <<exc, outcome>>
                ELSE /\ exc' = ReadRaise(err, idx)
                     /\ outcome' = [outcome EXCEPT ![idx] = exc'.type]
                     /\ pc' = "handler"
                     /\ UNCHANGED <<data, stepIdx>>
    /\ before' = fs
    /\ UNCHANGED <<files, pipeline, fs, metrics, success, failures, idx, prior, log,
                   batch, base, tvars>>

(* the step's return value is not checked *)
IsDictUnchecked(val) == TRUE

(* isinstance(data, dict), line 95 *)
IsDict(val) == val.t = "dict"

(* lines 88-99, after `data = step(data)` raised or returned (res) *)
AfterStep(step, res) ==
    /\ stepLog' = Append(stepLog, [step |-> step, arg |-> data, res |-> res])
    /\ IF res.raised
       THEN /\ metrics' = [metrics EXCEPT !.pipeline_step_failures = @ + 1]
            /\ exc' = PipelineStepError(step, idx, res.e)
            /\ outcome' = [outcome EXCEPT ![idx] = "PipelineStepError"]
            /\ pc' = "handler"
            /\ UNCHANGED <<data, stepIdx>>
       ELSE IF ~IsDict(res.val)
       THEN /\ data' = res.val
            /\ exc' = PipelineStepError(step, idx, "none")
            /\ outcome' = [outcome EXCEPT ![idx] = "PipelineStepError"]
            /\ pc' = "handler"
            /\ UNCHANGED <<metrics, stepIdx>>
       ELSE /\ data' = res.val
            /\ stepIdx' = stepIdx + 1
            /\ UNCHANGED <<metrics, exc, outcome, pc>>

(* process_file, lines 85-99: one round of the step loop *)
RunStep ==
    /\ pc = "steps"
    /\ stepIdx <= Len(pipeline)
    /\ AfterStep(pipeline[stepIdx], StepCall(pipeline[stepIdx], data))
    /\ UNCHANGED <<faults, files, pipeline, fs, success, failures, idx, tmp_file, prior, before, log,
                   batch, base, called, wrote, origExc, cleanup, tvars>>

(* process_file, lines 103-109: the step loop is over; tempfile.mkstemp   *)
(* creates the temp file or fails                                          *)
Mkstemp ==
    /\ pc = "steps"
    /\ stepIdx > Len(pipeline)
    /\ wrote' = TRUE
    /\ \/ /\ tmp_file' = mkstemp(idx, batch)
          /\ fs' = [fs EXCEPT ![tmp_file'] = File(<<>>)]
          /\ pc' = "dump"
          /\ UNCHANGED <<exc, faults>>
       \/ /\ \E e \in OsErrors : OsFails(e)
          /\ UNCHANGED <<tmp_file, fs>>
    /\ UNCHANGED <<files, pipeline, metrics, success, failures, idx, data, stepIdx,
                   prior, before, log, batch, base, called, outcome, stepLog, origExc, cleanup,
                   tvars>>

(* process_file, lines 111-113: json.dump into the buffered temp file; on *)
(* an exception the with block closes the file, which writes the buffer   *)
Dump ==
    /\ pc = "dump"
    /\ LET toks == Tokens(data)
           bad == FirstBad(toks)
       IN IF bad > 0
          THEN /\ fs' = [fs EXCEPT ![tmp_file] = File(Prefix(toks, bad - 1))]
               /\ exc' = Raw(DumpError(toks[bad]))
               /\ pc' = "except_write"
               /\ UNCHANGED faults
          ELSE \E k \in PrefixLens(toks) :
                  /\ fs' = [fs EXCEPT ![tmp_file] = File(Prefix(toks, k))]
                  /\ \/ /\ pc' = "flush"
                        /\ UNCHANGED <<exc, faults>>
                     \/ \E e \in OsErrors : OsFails(e)
    /\ UNCHANGED <<files, pipeline, metrics, success, failures, idx, data, stepIdx,
                   tmp_file, prior, before, log, batch, base, called, outcome, stepLog, wrote,
                   origExc, cleanup, tvars>>

(* process_file, line 115: f.flush() *)
Flush ==
    /\ pc = "flush"
    /\ \/ /\ fs' = [fs EXCEPT ![tmp_file] = File(Tokens(data))]
          /\ pc' = "fsync"
          /\ UNCHANGED <<exc, faults>>
       \/ /\ \E e \in OsErrors : OsFails(e)
          /\ UNCHANGED fs
    /\ UNCHANGED <<files, pipeline, metrics, success, failures, idx, data, stepIdx,
                   tmp_file, prior, before, log, batch, base, called, outcome, stepLog, wrote,
                   origExc, cleanup, tvars>>

(* process_file, line 117 and the end of the with block: os.fsync, close *)
Fsync ==
    /\ pc = "fsync"
    /\ \/ /\ pc' = "replace"
          /\ UNCHANGED <<exc, faults>>
       \/ \E e \in OsErrors : OsFails(e)
    /\ UNCHANGED <<files, pipeline, fs, metrics, success, failures, idx, data,
                   stepIdx, tmp_file, prior, before, log, batch, base, called, outcome, stepLog,
                   wrote, origExc, cleanup, tvars>>

(* os.replace has renamed the temp file when it fails *)
ReplaceRenamesThenFails ==
    /\ pc = "replace"
    /\ fs' = [fs EXCEPT ![out_path(idx)] = fs[tmp_file], ![tmp_file] = Absent]
    /\ \/ /\ outcome' = [outcome EXCEPT ![idx] = "ok"]
          /\ pc' = "returned"
          /\ UNCHANGED <<exc, faults>>
       \/ /\ \E e \in OsErrors : OsFails(e)
          /\ UNCHANGED outcome
    /\ UNCHANGED <<files, pipeline, metrics, success, failures, idx, data, stepIdx,
                   tmp_file, prior, before, log, batch, base, called, stepLog, wrote, origExc,
                   cleanup, tvars>>

(* process_file, line 121: os.replace(tmp_file, out_path), then return *)
Replace ==
    /\ pc = "replace"
    /\ \/ /\ fs' = [fs EXCEPT ![out_path(idx)] = fs[tmp_file], ![tmp_file] = Absent]
          /\ outcome' = [outcome EXCEPT ![idx] = "ok"]
          /\ pc' = "returned"
          /\ UNCHANGED <<exc, faults>>
       \/ /\ \E e \in OsErrors : OsFails(e)
          /\ UNCHANGED <<fs, outcome>>
    /\ UNCHANGED <<files, pipeline, metrics, success, failures, idx, data, stepIdx,
                   tmp_file, prior, before, log, batch, base, called, stepLog, wrote, origExc,
                   cleanup, tvars>>

(* process_file, lines 123-145: the handlers of the write block: unlink   *)
(* the temp file if it exists (a failing unlink is swallowed), then raise *)
ExceptWrite ==
    /\ pc = "except_write"
    /\ origExc' = exc
    /\ IF tmp_file # NoPath /\ fs[tmp_file].exists
       THEN \E unlinked \in {TRUE} \cup (IF CanFail THEN {FALSE} ELSE {}) :
               /\ fs' = IF unlinked THEN [fs EXCEPT ![tmp_file] = Absent] ELSE fs
               /\ cleanup' = IF unlinked THEN "removed" ELSE "failed"
               /\ faults' = IF unlinked THEN faults ELSE faults + 1
       ELSE /\ cleanup' = "nothing"
            /\ UNCHANGED <<fs, faults>>
    /\ exc' = WriteRaise(exc, idx)
    /\ outcome' = [outcome EXCEPT ![idx] = exc'.type]
    /\ pc' = "handler"
    /\ UNCHANGED <<files, pipeline, metrics, success, failures, idx, data, stepIdx,
                   tmp_file, prior, before, log, batch, base, called, stepLog, wrote, tvars>>

(* process_file has exited and main has dealt with it: its locals and the  *)
(* history of that call are dropped                                        *)
FrameGone ==
    /\ data' = Null
    /\ stepIdx' = 0
    /\ tmp_file' = NoPath
    /\ stepLog' = <<>>
    /\ wrote' = FALSE
    /\ origExc' = NoExc
    /\ cleanup' = "none"
    /\ before' = fs

(* main, lines 172-174: process_file returned *)
FileSucceeded ==
    /\ pc = "returned"
    /\ success' = success + 1
    /\ metrics' = [metrics EXCEPT !.files_processed = @ + 1]
    /\ idx' = idx + 1
    /\ pc' = "loop"
    /\ FrameGone
    /\ UNCHANGED <<faults, files, pipeline, fs, failures, exc, prior, log, batch, base, called,
                   outcome, tvars>>

(* the failure is not counted *)
CountFailedNot(m) == m

(* metrics["files_failed"] += 1, lines 177 and 183 *)
CountFailed(m) == [m EXCEPT !.files_failed = @ + 1]

(* main, lines 175-180 *)
HandlePipelineStepError ==
    /\ pc = "handler"
    /\ IsInstance(exc.type, "PipelineStepError")
    /\ failures' = failures + 1
    /\ metrics' = CountFailed(metrics)
    /\ exc' = NoExc
    /\ idx' = idx + 1
    /\ pc' = "loop"
    /\ FrameGone
    /\ log' = LogException(log, idx, exc)
    /\ UNCHANGED <<faults, files, pipeline, fs, success, prior, batch, base, called,
                   outcome, tvars>>

(* the handler re-raises instead of going on to the next file *)
HandleFileProcessingErrorReraise ==
    /\ pc = "handler"
    /\ ~IsInstance(exc.type, "PipelineStepError")
    /\ IsInstance(exc.type, "FileProcessingError")
    /\ failures' = failures + 1
    /\ metrics' = CountFailed(metrics)
    /\ pc' = "aborted"
    /\ log' = LogException(log, idx, exc)
    /\ UNCHANGED <<faults, files, pipeline, fs, success, idx, data, stepIdx,
                   tmp_file, exc, prior, before, batch, base, called, outcome, stepLog,
                   wrote, origExc, cleanup, tvars>>

(* main, lines 181-185 *)
HandleFileProcessingError ==
    /\ pc = "handler"
    /\ ~IsInstance(exc.type, "PipelineStepError")
    /\ IsInstance(exc.type, "FileProcessingError")
    /\ failures' = failures + 1
    /\ metrics' = CountFailed(metrics)
    /\ exc' = NoExc
    /\ idx' = idx + 1
    /\ pc' = "loop"
    /\ FrameGone
    /\ log' = LogException(log, idx, exc)
    /\ UNCHANGED <<faults, files, pipeline, fs, success, prior, batch, base, called,
                   outcome, tvars>>

(* the handler logs the unexpected error and goes on to the next file *)
HandleUnexpectedSwallow ==
    /\ pc = "handler"
    /\ ~IsInstance(exc.type, "PipelineStepError")
    /\ ~IsInstance(exc.type, "FileProcessingError")
    /\ IsInstance(exc.type, "Exception")
    /\ exc' = NoExc
    /\ idx' = idx + 1
    /\ pc' = "loop"
    /\ FrameGone
    /\ log' = LogException(log, idx, exc)
    /\ UNCHANGED <<faults, files, pipeline, fs, metrics, success, failures, prior, batch, base, called, outcome, tvars>>

(* main, lines 186-189: log and re-raise *)
HandleUnexpected ==
    /\ pc = "handler"
    /\ ~IsInstance(exc.type, "PipelineStepError")
    /\ ~IsInstance(exc.type, "FileProcessingError")
    /\ IsInstance(exc.type, "Exception")
    /\ pc' = "aborted"
    /\ log' = LogException(log, idx, exc)
    /\ UNCHANGED <<faults, files, pipeline, fs, metrics, success, failures, idx, data,
                   stepIdx, tmp_file, exc, prior, before, batch, base, called, outcome,
                   stepLog, wrote, origExc, cleanup, tvars>>

(* main, lines 169 and 191: the for loop is exhausted *)
BatchComplete ==
    /\ pc = "loop"
    /\ idx > Len(files)
    /\ pc' = "done"
    /\ UNCHANGED <<faults, files, pipeline, fs, metrics, success, failures, idx, data,
                   stepIdx, tmp_file, exc, prior, before, log, batch, base, called, outcome,
                   stepLog, wrote, origExc, cleanup, tvars>>

InWriteBlock == pc \in {"dump", "flush", "fsync", "replace", "except_write"}

(* the process is killed inside the write block: nothing runs afterwards. *)
(* (Killed anywhere else, it leaves the files as they are in that state.) *)
Crash ==
    /\ InWriteBlock
    /\ pc' = "crashed"
    /\ UNCHANGED <<faults, files, pipeline, fs, metrics, success, failures, idx, data,
                   stepIdx, tmp_file, exc, prior, before, log, batch, base, called, outcome,
                   stepLog, wrote, origExc, cleanup, tvars>>

Next ==
    \/ MainStart
    \/ MainNotADirectory
    \/ ProcessFileRead
    \/ RunStep
    \/ Mkstemp
    \/ Dump
    \/ Flush
    \/ Fsync
    \/ Replace
    \/ ExceptWrite
    \/ FileSucceeded
    \/ HandlePipelineStepError
    \/ HandleFileProcessingError
    \/ HandleUnexpected
    \/ BatchComplete
    \/ Crash

Spec == Init /\ [][Next]_vars

(* the same runs over input files that are all valid UTF-8 *)
InitDecodable == Init /\ \A i \in 1..Len(files) : files[i].kind # "undecodable"

SpecDecodable == InitDecodable /\ [][Next]_vars

(* top-level JSON values that are not objects: a list, a string, a number, *)
(* a boolean, null                                                         *)
NonMappingValues == {ListValue, Str(<<"r", "i", "g">>), Num(41), Bool(TRUE), Null}

NonMappingFiles == {InputFile("json", v) : v \in NonMappingValues}

(* batches of files that parse to values of different types *)
NonMappingLists ==
    {l \in UNION {[1..n -> NonMappingFiles] : n \in 0..MaxFiles} :
        \A i, j \in 1..Len(l) : i # j => l[i] # l[j]}

(* the runs over input files that all parse to a value of another type    *)
(* than a mapping                                                          *)
InitNonMapping ==
    /\ files \in NonMappingLists
    /\ pipeline \in Pipelines
    /\ \E old \in BOOLEAN :
          fs = [p \in Paths |->
                  IF old /\ p.dir = "out" /\ p.f <= Len(files)
                  THEN File(Tokens(OldRecord)) ELSE Absent]
    /\ prior = fs
    /\ RunnerIdle
    /\ TransformIdle

SpecNonMapping == InitNonMapping /\ [][Next]_vars

(***************************************************************************)
(* The transform harness: a record is put on the heap and either one of    *)
(* the five transforms is called on it, or the standard pipeline is        *)
(* applied to it step by step, MaxRounds times over, each step on the      *)
(* result of the one before.                                               *)
(***************************************************************************)
MaxRounds == 2

NameOpts ==
    { <<>>,
      <<Item("Name", Str(<<"r", "i", "g">>))>>,
      <<Item("Name", Str(<<"r", "i", "g">>)), Item("name", Num(3))>> }

JunkOpts ==
    { <<>>,
      <<Item("Serial", Num(41)),
        Item("location", List(<<Dict(<<Item("Phone", Num(1))>>), Null>>))>> }

DateOpts ==
    { <<>>,
      <<Item("Last_Maintenance_Date", Str(DateIso))>>,
      <<Item("last_maintenance_date", Str(<<"2", "0", "2", "4", "-", "3", "-", "5">>)),
        Item("next_maintenance_due", Str(DateIso))>>,
      <<Item("last_maintenance_date",
             Str(<<"0", "5", "/", "0", "3", "/", "2", "0", "2", "4">>)),
        Item("next_maintenance_due",
             Str(<<"2", "0", "2", "3", "-", "0", "2", "-", "2", "9">>))>>,
      <<Item("last_maintenance_date", Str(<<"n", "o", "t", "-", "a", "-", "d", "a", "t", "e">>)),
        Item("next_maintenance_due", Num(20240305))>>,
      <<Item("last_maintenance_date", Null),
        Item("next_maintenance_due", Str(<<"2", "0", "2", "4", "-", "0", "2", "-", "2", "9">>))>> }

SpecsOpts ==
    { <<>>,
      <<Item("specifications", Null)>>,
      <<Item("specifications", Str(<<"a", "b", "c">>))>>,
      <<Item("specifications", List(<<Num(2)>>))>>,
      <<Item("specifications", Dict(<<>>))>>,
      <<Item("specifications",
             Dict(<<Item("depth_capacity_miles", Str(<<"2">>)),
                    Item("rig_type", Str(<<"x">>))>>))>>,
      <<Item("Specifications",
             Dict(<<Item("Depth_Capacity_Miles", Str(<<" ", "2", " ">>)),
                    Item("drilling_speed_miles_per_day", Str(<<"a", "b", "c">>))>>))>>,
      <<Item("specifications",
             Dict(<<Item("depth_capacity_miles", Num(3)),
                    Item("depth_capacity_meters", Num(5)),
                    Item("drilling_speed_miles_per_day", Bool(TRUE))>>))>>,
      <<Item("specifications",
             Dict(<<Item("depth_capacity_miles", Str(<<"2">>)),
                    Item("drilling_speed_miles_per_day", BigInt)>>))>>,
      <<Item("specifications",
             Dict(<<Item("depth_capacity_miles", Dict(<<>>)),
                    Item("drilling_speed_miles_per_day", Str(<<"-", "1">>))>>))>> }

ContactOpts ==
    { <<>>,
      <<Item("contact_information", Null)>>,
      <<Item("contact_information", Str(<<"x">>))>>,
      <<Item("Contact_Information", Dict(<<Item("Phone", Str(<<"5", "5", "5">>))>>))>>,
      <<Item("contact_information", Dict(<<>>))>>,
      <<Item("contact_information",
             Dict(<<Item("operator_company", Str(<<"x">>)), Item("contact_person", Null),
                    Item("phone", Null), Item("email", Null)>>))>> }

(* the values json.load can return that the harness tries *)
Inputs ==
    { Dict(n \o j \o d \o sp \o c) :
        n \in NameOpts, j \in JunkOpts, d \in DateOpts, sp \in SpecsOpts,
        c \in ContactOpts }
    \cup {ListValue, Null, Num(7), Str(<<"x">>), Bool(TRUE)}

InitT ==
    /\ files = <<>>
    /\ pipeline = StandardPipeline
    /\ fs = [p \in Paths |-> Absent]
    /\ prior = fs
    /\ RunnerIdle
    /\ tin \in Inputs
    /\ LET ld == Load(EmptyHeap, tin)
       IN /\ theap = ld.h
          /\ tprev = ld.h
          /\ targ = ld.r
          /\ tret = ld.r
    /\ tfn = "none"
    /\ tmode = "ready"
    /\ tpos = 0
    /\ tonce = Null

(* one of the five transforms is called on the input *)
CallOne ==
    /\ tmode = "ready"
    /\ \E f \in {StandardPipeline[k] : k \in 1..Len(StandardPipeline)} :
          LET res == CallTransform(f, theap, tret)
          IN /\ tprev' = theap
             /\ targ' = tret
             /\ theap' = res.h
             /\ tret' = res.r
             /\ tfn' = f
    /\ tmode' = "single"
    /\ UNCHANGED <<tin, tpos, tonce, rvars>>

(* the next step of the standard pipeline is called on the last result,  *)
(* unless the last step raised                                             *)
PipelineStep ==
    /\ tmode \in {"ready", "pipeline"}
    /\ tret.t # "raise"
    /\ tpos < MaxRounds * Len(StandardPipeline)
    /\ LET f == StandardPipeline[(tpos % Len(StandardPipeline)) + 1]
           res == CallTransform(f, theap, tret)
       IN /\ tprev' = theap
          /\ targ' = tret
          /\ theap' = res.h
          /\ tret' = res.r
          /\ tfn' = f
          /\ tonce' = IF tpos + 1 = Len(StandardPipeline)
                      THEN Deref(res.h, res.r) ELSE tonce
    /\ tpos' = tpos + 1
    /\ tmode' = "pipeline"
    /\ UNCHANGED <<tin, rvars>>

NextT == CallOne \/ PipelineStep

SpecT == InitT /\ [][NextT]_vars

(***************************************************************************)
(* Properties of the runner.                                               *)
(***************************************************************************)
Classified == {"PipelineStepError", "FileProcessingError"}

FileIds == 1..Len(files)

Ended(i) == outcome[i] # "pending"

Unclassified(i) == Ended(i) /\ outcome[i] \notin Classified \cup {"ok"}

(* the complete serialized record for every step list and parsed input *)
Serialized ==
    [p \in Pipelines |->
        [v \in {f.value : f \in InputFiles} |-> File(Tokens(RunSteps(p, v)))]]

(* the complete serialized record process_file writes for file i *)
NewContent(i) == Serialized[pipeline][files[i].value]

TmpExists == tmp_file # NoPath /\ fs[tmp_file].exists

(* C1: at every point of the write sequence, and after a crash or a       *)
(* failure anywhere in it, the final path of every file holds what it held *)
(* before the run (possibly nothing) or the complete new serialized        *)
(* record, never a part of it.                                             *)
C1_AtomicWrite ==
    \A i \in FileIds :
        \/ fs[out_path(i)] = prior[out_path(i)]
        \/ /\ files[i].kind = "json"
           /\ fs[out_path(i)] = NewContent(i)

(* a crash with a partly written temp file, the final path still as before *)
C1_Witness ==
    /\ pc = "crashed"
    /\ TmpExists
    /\ fs[tmp_file].text # Tokens(data)
    /\ fs[tmp_file].text # <<>>
    /\ prior[out_path(idx)].exists
    /\ fs[out_path(idx)] = prior[out_path(idx)]

ReadFailed == pc = "handler" /\ stepLog = <<>> /\ ~wrote

(* C3: every failure of reading or parsing the input file leaves          *)
(* process_file as FileProcessingError.                                    *)
C3_ReadFailuresClassified == ReadFailed => exc.type = "FileProcessingError"

WriteFailed == pc = "handler" /\ wrote

(* C4 as stated: when a step of the write sequence fails, the temp file is *)
(* gone unless the cleanup failed, and the error leaving process_file is a *)
(* FileProcessingError.                                                    *)
C4_Original ==
    WriteFailed =>
        /\ cleanup # "failed" => ~TmpExists
        /\ exc.type = "FileProcessingError"

(* C4 as amended: when a step of the write sequence fails, the temp file  *)
(* is gone unless its unlink failed; the error leaving process_file is a   *)
(* FileProcessingError caused by the failure when the failure is an        *)
(* OSError (PermissionError included), and is the failure itself, raised   *)
(* again unchanged, when it is any other exception; a failed unlink        *)
(* changes neither.                                                        *)
C4_WriteFailure ==
    WriteFailed =>
        /\ cleanup # "failed" => ~TmpExists
        /\ cleanup = "failed" => TmpExists
        /\ origExc.type # "none"
        /\ IF IsInstance(origExc.type, "OSError")
           THEN exc = FileProcessingError(idx, origExc.type)
           ELSE exc = origExc

(* the unlink failed and the error is still the FileProcessingError *)
C4_Witness ==
    /\ WriteFailed
    /\ cleanup = "failed"
    /\ TmpExists
    /\ exc.type = "FileProcessingError"
    /\ exc.cause = "OSError"

Count(S) == Cardinality(S)

Succeeded == {i \in FileIds : outcome[i] = "ok"}

Failed == {i \in FileIds : outcome[i] \in Classified}

(* C5: when process_file raises anything but PipelineStepError or         *)
(* FileProcessingError, the batch stops at that file: control goes from    *)
(* main's handler out of main with that exception, no later file is passed *)
(* to process_file, and the file is counted neither succeeded nor failed.  *)
C5_UnclassifiedAborts ==
    \A i \in FileIds :
        Unclassified(i) =>
            /\ idx = i
            /\ pc \in {"handler", "aborted"}
            /\ exc.type = outcome[i]
            /\ \A j \in FileIds : j > i => ~called[j] /\ ~Ended(j)
            /\ metrics.files_processed - base.files_processed = Count(Succeeded)
            /\ metrics.files_failed - base.files_failed = Count(Failed)
            /\ success + failures = i - 1

(* main has raised an unclassified exception with a file left unprocessed *)
C5_Witness ==
    /\ pc = "aborted"
    /\ idx \in FileIds
    /\ idx < Len(files)
    /\ Unclassified(idx)
    /\ exc.type \in {"UnicodeDecodeError", "UnicodeEncodeError", "TypeError"}
    /\ ~called[idx + 1]

StepFails(k) == stepLog[k].res.raised \/ stepLog[k].res.val.t # "dict"

InFrame == pc \in {"steps", "dump", "flush", "fsync", "replace", "except_write",
                   "handler", "returned"}

(* C6: the steps are called in list order, each at most once, the first   *)
(* on the parsed input and each next one on the previous result; the first *)
(* step that raises or returns a non-dict ends the call with a             *)
(* PipelineStepError naming the step and the file, no step is called after *)
(* it, and the write block is not entered.                                 *)
C6_StepSequencing ==
    InFrame =>
        /\ Len(stepLog) <= Len(pipeline)
        /\ \A k \in 1..Len(stepLog) :
              /\ stepLog[k].step = pipeline[k]
              /\ stepLog[k].arg =
                    IF k = 1 THEN files[idx].value
                    ELSE stepLog[k - 1].res.val
              /\ k < Len(stepLog) => ~StepFails(k)
        /\ pc = "steps" => Len(stepLog) = stepIdx - 1
        /\ (stepLog # <<>> /\ StepFails(Len(stepLog))) =>
              /\ pc = "handler"
              /\ ~wrote
              /\ exc.type = "PipelineStepError"
              /\ exc.step = pipeline[Len(stepLog)]
              /\ exc.file = idx
        /\ exc.type = "PipelineStepError" =>
              stepLog # <<>> /\ StepFails(Len(stepLog))
        /\ wrote => Len(stepLog) = Len(pipeline)

(* the second of three steps failed: the third was not called *)
C6_Witness ==
    /\ pc = "handler"
    /\ exc.type = "PipelineStepError"
    /\ Len(pipeline) = 3
    /\ Len(stepLog) = 2
    /\ exc.step = pipeline[2]
    /\ ~wrote

(* C7: in every state files_processed + files_failed <= files_total, also *)
(* counted from the start of the current batch; when a batch has run to    *)
(* completion files_total has grown by the number of discovered files,     *)
(* which is the growth of files_processed plus that of files_failed, each  *)
(* file counted in exactly one of the two.                                 *)
C7_BatchCounters ==
    /\ metrics.files_processed + metrics.files_failed <= metrics.files_total
    /\ (metrics.files_processed - base.files_processed)
         + (metrics.files_failed - base.files_failed)
           <= metrics.files_total - base.files_total
    /\ pc = "done" =>
          /\ metrics.files_total - base.files_total = Len(files)
          /\ metrics.files_processed - base.files_processed = Count(Succeeded)
          /\ metrics.files_failed - base.files_failed = Count(Failed)
          /\ Succeeded \cup Failed = FileIds
          /\ Count(Succeeded) + Count(Failed) = Len(files)

(* a second batch has completed with a success and a failure *)
C7_Witness ==
    /\ pc = "done"
    /\ batch = 2
    /\ base.files_total > 0
    /\ metrics.files_processed > base.files_processed
    /\ metrics.files_failed > base.files_failed

(* C8: after a batch, pipeline_step_failures has grown by the number of   *)
(* files whose processing ended in PipelineStepError, the step having      *)
(* raised or having returned a non-mapping.                                *)
C8_StepFailureCounter ==
    pc \in {"done", "aborted"} =>
        metrics.pipeline_step_failures - base.pipeline_step_failures
            = Count({i \in FileIds : outcome[i] = "PipelineStepError"})

(***************************************************************************)
(* Properties of the transforms.                                           *)
(***************************************************************************)
RoundDone == tmode = "pipeline" /\ tpos > 0 /\ tpos % Len(StandardPipeline) = 0

(* C9: applying the five-step pipeline to its own output gives the same   *)
(* record as applying it once.                                             *)
C9_PipelineIdempotent ==
    (RoundDone /\ tpos > Len(StandardPipeline)) => Deref(theap, tret) = tonce

(* a second round has ended on a record the first round had changed: a    *)
(* date was reformatted and a mileage converted                            *)
C9_Witness ==
    /\ RoundDone
    /\ tpos = 2 * Len(StandardPipeline)
    /\ tonce # tin
    /\ tonce.t = "dict"
    /\ DictGet(tonce.items, "last_maintenance_date")
         = Str(<<"0", "5", "/", "0", "3", "/", "2", "0", "2", "4">>)
    /\ DictGet(tonce.items, "specifications").t = "dict"
    /\ DictHas(DictGet(tonce.items, "specifications").items, "depth_capacity_meters")

(* C10: a transform changes no object that existed before the call (the   *)
(* argument, with every dict and list under it, has the content it had),   *)
(* and what it returns is a dict that did not exist before the call.       *)
C10_NonMutation ==
    tfn # "none" =>
        /\ Len(theap) >= Len(tprev)
        /\ \A a \in 1..Len(tprev) : theap[a] = tprev[a]
        /\ Deref(theap, targ) = Deref(tprev, targ)
        /\ tret.t # "raise" =>
              /\ IsMapping(theap, tret)
              /\ tret # targ
              /\ tret.a > Len(tprev)

(* format_dates, called alone, returned a record that differs from its    *)
(* argument                                                                *)
C10_Witness ==
    /\ tmode = "single"
    /\ tfn = "format_dates"
    /\ IsMapping(tprev, targ)
    /\ Deref(theap, tret) # Deref(theap, targ)

(* the argument and the result of the last transform call, as trees *)
ArgTree == Deref(tprev, targ)

RetTree == Deref(theap, tret)

Returned(f) == tfn = f /\ tret.t # "raise"

(* C11: each of the five transforms returns a mapping, without raising,   *)
(* for every JSON value it is given.                                       *)
C11_Totality == tfn # "none" => IsMapping(theap, tret)

(* the keys of the model that are not lower-case *)
MixedCaseKeys ==
    {"Name", "NAME", "Machine_ID", "Specifications", "Depth_Capacity_Miles",
     "Last_Maintenance_Date", "Contact_Information", "Phone", "Serial"}

RECURSIVE AllKeys(_)

(* the keys of a tree at every depth, in dicts and in dicts inside lists *)
AllKeys(tree) ==
    IF tree.t = "dict"
    THEN {tree.items[i].k : i \in 1..Len(tree.items)}
         \cup UNION {AllKeys(tree.items[i].v) : i \in 1..Len(tree.items)}
    ELSE IF tree.t = "list"
    THEN UNION {AllKeys(tree.elems[i]) : i \in 1..Len(tree.elems)}
    ELSE {}

TopKeys(tree) == {tree.items[i].k : i \in 1..Len(tree.items)}

RECURSIVE Relabelled(_, _)

(* new is old with keys renamed at most: lists keep their elements, leaves *)
(* their values, every item of a dict of new comes from an item of the     *)
(* dict of old (from the item at the same place when none was merged)      *)
Relabelled(old, new) ==
    IF old.t = "dict"
    THEN /\ new.t = "dict"
         /\ Len(new.items) <= Len(old.items)
         /\ \A j \in 1..Len(new.items) :
               \E i \in 1..Len(old.items) :
                  /\ Len(new.items) = Len(old.items) => i = j
                  /\ new.items[j].k = old.items[i].k \/ old.items[i].k \in MixedCaseKeys
                  /\ Relabelled(old.items[i].v, new.items[j].v)
    ELSE IF old.t = "list"
    THEN /\ new.t = "list"
         /\ Len(new.elems) = Len(old.elems)
         /\ \A i \in 1..Len(old.elems) : Relabelled(old.elems[i], new.elems[i])
    ELSE new = old

(* C12: in the result of normalisation_casse_clefs on a record every key  *)
(* at every depth, in nested dicts and in dicts inside lists, is           *)
(* lower-case, and the leaf values are those of the input.                 *)
C12_KeyCase ==
    (Returned("normalisation_casse_clefs") /\ ArgTree.t = "dict") =>
        /\ AllKeys(RetTree) \cap MixedCaseKeys = {}
        /\ Relabelled(ArgTree, RetTree)

(* a record with a capitalised key at the top and one in a dict inside a  *)
(* list was normalised                                                     *)
C12_Witness ==
    /\ tmode = "single"
    /\ Returned("normalisation_casse_clefs")
    /\ ArgTree.t = "dict"
    /\ "Name" \in TopKeys(ArgTree)
    /\ "Phone" \in AllKeys(ArgTree) \ TopKeys(ArgTree)
    /\ "phone" \in AllKeys(RetTree)

(* C13: the result of remove_irrelevant_data_points has exactly the       *)
(* input's top-level keys that are in RELEVANT_KEYS, each with the value   *)
(* it had; at the end of the five-step pipeline the top-level keys are     *)
(* still all in RELEVANT_KEYS.                                             *)
C13_AllowList ==
    /\ (Returned("remove_irrelevant_data_points") /\ ArgTree.t = "dict") =>
          /\ TopKeys(RetTree) = TopKeys(ArgTree) \cap RELEVANT_KEYS
          /\ Len(RetTree.items) = Cardinality(TopKeys(RetTree))
          /\ \A k \in TopKeys(RetTree) :
                DictGet(RetTree.items, k) = DictGet(ArgTree.items, k)
    /\ (RoundDone /\ tret.t # "raise") => TopKeys(RetTree) \subseteq RELEVANT_KEYS

(* a record with keys in and out of the list was filtered *)
C13_Witness ==
    /\ tmode = "single"
    /\ Returned("remove_irrelevant_data_points")
    /\ ArgTree.t = "dict"
    /\ {"Serial", "specifications"} \subseteq TopKeys(ArgTree)
    /\ "specifications" \in TopKeys(RetTree)
    /\ "Serial" \notin TopKeys(RetTree)

DateKeys == {"last_maintenance_date", "next_maintenance_due"}

(* a string of the exact pattern YYYY-MM-DD that denotes a calendar date *)
IsIsoDate(cs) ==
    /\ Len(cs) = 10
    /\ cs[5] = "-" /\ cs[8] = "-"
    /\ \A i \in {1, 2, 3, 4, 6, 7, 9, 10} : IsDigit(cs[i])
    /\ LET y == ToInt(SubSeq(cs, 1, 4))
           m == ToInt(SubSeq(cs, 6, 7))
           d == ToInt(SubSeq(cs, 9, 10))
       IN y >= 1 /\ m \in 1..12 /\ d >= 1 /\ d <= DaysInMonth(y, m)

(* DD/MM/YYYY from YYYY-MM-DD *)
DdMmYyyy(cs) == <<cs[9], cs[10], "/", cs[6], cs[7], "/", cs[1], cs[2], cs[3], cs[4]>>

(* C14: format_dates replaces the value of each of the two date keys by   *)
(* DD/MM/YYYY if and only if it is a string of the exact pattern           *)
(* YYYY-MM-DD denoting a calendar date; every other value, and every other *)
(* key, is returned unchanged.                                             *)
C14_DateReformat ==
    (tfn = "format_dates" /\ ArgTree.t = "dict") =>
        /\ RetTree.t = "dict"
        /\ Len(RetTree.items) = Len(ArgTree.items)
        /\ \A i \in 1..Len(ArgTree.items) :
              LET old == ArgTree.items[i]
                  new == RetTree.items[i]
              IN /\ new.k = old.k
                 /\ new.v = IF old.k \in DateKeys /\ old.v.t = "str" /\ IsIsoDate(old.v.s)
                            THEN Str(DdMmYyyy(old.v.s))
                            ELSE old.v

MileKeys == {"depth_capacity_miles", "drilling_speed_miles_per_day"}

MeterKey(mile_key) ==
    IF mile_key = "depth_capacity_miles" THEN "depth_capacity_meters"
    ELSE "drilling_speed_meters_per_day"

(* digits with an optional sign, surrounding blanks aside *)
IsNumeral(cs) ==
    LET st == Strip(cs)
        body == IF st # <<>> /\ Head(st) \in {"+", "-"} THEN Tail(st) ELSE st
    IN body # <<>> /\ AllDigits(body)

(* a value of a numeric type (bool is an int in Python) or a numeric string *)
IsNumeric(v) == v.t \in {"num", "bool", "bigint"} \/ (v.t = "str" /\ IsNumeral(v.s))

(* the number a numeric value of the model's range denotes *)
NumberOf(v) ==
    CASE v.t = "num" -> v.n
      [] v.t = "bool" -> IF v.b THEN 1 ELSE 0
      [] v.t = "str" ->
            LET st == Strip(v.s)
            IN IF Head(st) = "-" THEN 0 - ToInt(Tail(st))
               ELSE IF Head(st) = "+" THEN ToInt(Tail(st))
               ELSE ToInt(st)
      [] OTHER -> 0

SpecsOf(tree) == DictGet(tree.items, "specifications")

(* C15: for each of the two mile keys under a specifications mapping: a   *)
(* value of a numeric type or a numeric string is removed and the meter    *)
(* key is set to value x 1609; with any other value the mile key is left   *)
(* as it is and no meter key is added; a mile key and the meter key        *)
(* produced from it never coexist.                                         *)
C15_MileageConversion ==
    (tfn = "convert_miles_to_meters" /\ ArgTree.t = "dict"
        /\ SpecsOf(ArgTree).t = "dict") =>
        /\ tret.t # "raise"
        /\ SpecsOf(RetTree).t = "dict"
        /\ \A mk \in MileKeys :
              LET old == SpecsOf(ArgTree).items
                  new == SpecsOf(RetTree).items
              IN IF DictHas(old, mk) /\ IsNumeric(DictGet(old, mk))
                 THEN /\ ~DictHas(new, mk)
                      /\ DictHas(new, MeterKey(mk))
                      /\ DictGet(old, mk).t # "bigint" =>
                            DictGet(new, MeterKey(mk))
                                = Num(NumberOf(DictGet(old, mk)) * 1609)
                 ELSE /\ DictHas(new, mk) = DictHas(old, mk)
                      /\ DictGet(new, mk) = DictGet(old, mk)
                      /\ DictHas(new, MeterKey(mk)) = DictHas(old, MeterKey(mk))
                      /\ DictGet(new, MeterKey(mk)) = DictGet(old, MeterKey(mk))

ContactOf(tree) == DictGet(tree.items, "contact_information")

ContactFields == {"operator_company", "contact_person", "phone", "email"}

CountedSucceeded == {i \in Succeeded : i < idx}

(* C18: the final path of a file holds the serialized pipeline result     *)
(* exactly when process_file returned for that file, and main then counts  *)
(* the file as succeeded; while process_file runs on a file no other final *)
(* path changes, and its own changes only by the replace that makes it     *)
(* succeed; when the file fails while being read or in a pipeline step the *)
(* destination directory is as it was when process_file was called, with   *)
(* no temp file.                                                           *)
C18_OutputPerSuccess ==
    /\ \A i \in Succeeded : fs[out_path(i)] = NewContent(i)
    /\ metrics.files_processed - base.files_processed = Count(CountedSucceeded)
    /\ pc = "done" => CountedSucceeded = Succeeded
    /\ (InFrame \/ pc \in {"aborted", "crashed"}) /\ idx \in FileIds =>
          /\ fs[out_path(idx)] # before[out_path(idx)] => outcome[idx] = "ok"
          /\ \A j \in FileIds \ {idx} : fs[out_path(j)] = before[out_path(j)]
    /\ (pc = "handler" /\ ~wrote) =>
          /\ fs = before
          /\ tmp_file = NoPath

(* the first file was written and counted, the second failed while being  *)
(* read with the destination directory, its old output included, left as   *)
(* it was                                                                  *)
C18_Witness ==
    /\ ReadFailed
    /\ idx = 2
    /\ outcome[1] = "ok"
    /\ metrics.files_processed - base.files_processed = 1
    /\ fs[out_path(1)] = NewContent(1)
    /\ fs[out_path(1)] # prior[out_path(1)]
    /\ prior[out_path(2)].exists
    /\ fs[out_path(2)] = prior[out_path(2)]
    /\ fs = before

(* neither mile value of the record can be converted *)
NothingToConvert(tree) ==
    \/ SpecsOf(tree).t # "dict"
    \/ \A mk \in MileKeys : ~IsNumeric(DictGet(SpecsOf(tree).items, mk))

(* C19: when neither mile value can be converted, convert_miles_to_meters *)
(* returns a record equal to its input, whatever specifications is         *)
(* (absent, null, not a mapping, a mapping without convertible values); in *)
(* every case the other top-level keys are returned unchanged and no       *)
(* specifications key is added when there was none.                        *)
C19_MileageNoOp ==
    (Returned("convert_miles_to_meters") /\ ArgTree.t = "dict") =>
        /\ NothingToConvert(ArgTree) => RetTree = ArgTree
        /\ TopKeys(RetTree) = TopKeys(ArgTree)
        /\ \A k \in TopKeys(ArgTree) \ {"specifications"} :
              DictGet(RetTree.items, k) = DictGet(ArgTree.items, k)

(* the positions in the log of the error-level records about file i *)
ErrorRecords(i) == {k \in 1..Len(log) : log[k].level = "ERROR" /\ log[k].file = i}

(* C20: for a file that ended in PipelineStepError or FileProcessingError *)
(* and that main has gone past, the log holds exactly one error-level      *)
(* record about it, emitted by main with that exception; as long as        *)
(* process_file has not given control back to main and main's handler has  *)
(* not run (the file is the current one or a later one), the log holds no  *)
(* error-level record about the file.                                      *)
C20_SingleErrorLog ==
    \A i \in FileIds :
        /\ (outcome[i] \in Classified /\ i < idx) =>
              /\ Cardinality(ErrorRecords(i)) = 1
              /\ \A k \in ErrorRecords(i) : log[k].by = "main" /\ log[k].exc = outcome[i]
        /\ (i > idx \/ (i = idx /\ pc # "aborted")) => ErrorRecords(i) = {}

(* a batch of two files completed, the first ended in PipelineStepError   *)
(* and the second in FileProcessingError, with one record each             *)
C20_Witness ==
    /\ pc = "done"
    /\ Len(files) = 2
    /\ outcome[1] = "PipelineStepError"
    /\ outcome[2] = "FileProcessingError"
    /\ Len(log) = 2
    /\ ErrorRecords(1) = {1}
    /\ ErrorRecords(2) = {2}

(* the record the standard pipeline makes of a value that is not a mapping *)
ContactOnly == Dict(<<Item("contact_information", ContactTemplate)>>)

(* the files process_file was called on in this batch and main has gone   *)
(* past                                                                    *)
Past == {i \in FileIds : called[i] /\ i < idx}

(* C21: for input files whose parsed value is not a mapping.  Under the   *)
(* standard pipeline no step fails: the first step is called on the parsed *)
(* value and returns the empty mapping, the record that reaches json.dump  *)
(* and the final path is {contact_information: template}, a file fails     *)
(* only as FileProcessingError, and when the operating system fails no     *)
(* call every file main has gone past is counted as succeeded.  Under the  *)
(* empty step list no step is called and the parsed value itself reaches   *)
(* json.dump and the final path.                                           *)
C21_NonMappingAbsorbed ==
    /\ \A i \in FileIds : files[i].value.t # "dict"
    /\ pipeline = StandardPipeline =>
          /\ \A i \in FileIds : outcome[i] \in {"pending", "ok", "FileProcessingError"}
          /\ \A k \in 1..Len(stepLog) : ~StepFails(k)
          /\ stepLog # <<>> =>
                /\ stepLog[1].arg = files[idx].value
                /\ stepLog[1].res.val = Dict(<<>>)
          /\ pc \in {"dump", "flush", "fsync", "replace", "returned"} => data = ContactOnly
          /\ \A i \in Succeeded : fs[out_path(i)] = File(Tokens(ContactOnly))
    /\ pipeline = <<>> =>
          /\ stepLog = <<>>
          /\ \A i \in FileIds : outcome[i] \in {"pending", "ok", "FileProcessingError"}
          /\ pc \in {"dump", "flush", "fsync", "replace", "returned"} =>
                data = files[idx].value
          /\ \A i \in Succeeded : fs[out_path(i)] = File(Tokens(files[i].value))
    /\ (pipeline \in {StandardPipeline, <<>>} /\ faults = 0) =>
          /\ Past \subseteq Succeeded
          /\ metrics.files_processed - base.files_processed = Count(Past)

(* a batch over a list and a null under the standard pipeline completed:  *)
(* both are counted as succeeded and both outputs, which existed before,   *)
(* hold the template record                                                *)
C21_Witness ==
    /\ pc = "done"
    /\ pipeline = StandardPipeline
    /\ Len(files) = 2
    /\ files[1].value = ListValue
    /\ files[2].value = Null
    /\ metrics.files_processed - base.files_processed = 2
    /\ \A i \in FileIds :
          /\ outcome[i] = "ok"
          /\ prior[out_path(i)].exists
          /\ fs[out_path(i)] = File(Tokens(ContactOnly))
          /\ fs[out_path(i)] # prior[out_path(i)]

====
